---- MODULE Spec2Model ----
(***************************************************************************)
(* A model of src/client.rs: the AWS IoT convenience layer over rumqttc.  *)
(*                                                                         *)
(* One client instance is modelled per behaviour: it is constructed by     *)
(* AWSIoTClient::new (blocking variant) or AWSIoTAsyncClient::new          *)
(* (concurrent variant), after which a caller issues subscribe/publish     *)
(* calls through the handle while a listener runs the dispatch loop over   *)
(* the receive side (Connection / EventLoop).                              *)
(*                                                                         *)
(* The wrapped library is the environment.  What it contributes is the     *)
(* request channel created with the capacity this file passes in, and the  *)
(* result of each poll: a request taken from the channel (no incoming      *)
(* packet), an incoming packet, or an error.                               *)
(***************************************************************************)
EXTENDS Integers, Sequences, FiniteSets, TLC

VARIABLES
    brokerOk,     \* environment: can the TLS/socket negotiation with the broker succeed
    files,        \* environment: <<ca, cert, key>> readable?, as found by new
    variant,      \* "none" | "blocking" | "async": which constructor was called
    result,       \* "none" | "Ok" | "FileReadError": what new returned
    handles,      \* client handles created (AWSIoTClient / AWSIoTAsyncClient)
    conns,        \* receive sides created (Connection / EventLoop)
    connAlive,    \* the receive side exists and has not been dropped
    chan,         \* the request channel between handle and event loop
    issued,       \* history: the subscribe/publish calls started, with their arguments
    delivered,    \* history: requests the event loop took from the channel, in order
    callerPc,     \* "idle" | "sending" | "panicked"
    pendingReq,   \* the request of the call in progress (callerPc = "sending")
    calls,        \* number of subscribe/publish calls started
    sendFailed,   \* history: some send returned an error
    inflight,     \* library: QoS 1 publishes handed to the network, not yet acknowledged
    loopPc,       \* "idle" | "polling" | "matched" | "returned" | "dropped" | "cancelled"
    cur,          \* the poll result being matched (loopPc = "matched")
    exhausted,    \* history: the blocking iterator returned None
    polled,       \* history: the poll results the loop has matched, in order
    log           \* the callback invocations, in order

vars == <<brokerOk, files, variant, result, handles, conns, connAlive, chan, issued,
          delivered, callerPc, pendingReq, calls, sendFailed, inflight, loopPc, cur,
          exhausted, polled, log>>

constructionVars == <<files, variant, result, handles, conns, connAlive>>
callerVars == <<callerPc, pendingReq, calls, issued, sendFailed>>
channelVars == <<chan, delivered, inflight>>
loopVars == <<loopPc, cur, exhausted, polled, log>>

----------------------------------------------------------------------------
(* Program constants *)

\* Client::new(mqtt_options, 10) / EventLoop::new(mqtt_options, 10)
RequestCap == 10

(* Bounds of the model *)

\* subscribe/publish calls per behaviour in the mixed scenario
MaxReq == 1
\* callback invocations per behaviour
MaxCallbacks == 3
\* poll results without a callback that the history `polled` keeps
MaxIgnored == 1
\* calls per behaviour in the burst scenarios: two more than the channel holds
MaxBurst == RequestCap + 2

AtMostOnce == "AtMostOnce"
AtLeastOnce == "AtLeastOnce"
\* The values the inputs are drawn from, listed as sequences
QoS == <<AtMostOnce, AtLeastOnce>>
OnlyAtMostOnce == <<AtMostOnce>>
Topics == <<"t">>
OutPayloads == <<"hello">>
InPayloads == <<<<1, 2, 3>>>>
PubAckIds == <<7>>

----------------------------------------------------------------------------
(* Requests put on the channel *)

\* Subscribe::new(topic_name, qos) / client.subscribe(topic_name, qos)
\* A request is <<type, topic, qos, retain, payload>>
ReqType(r) == r[1]
ReqQos(r) == r[3]

SubscribeRequest(topic, qos) == <<"Subscribe", topic, qos, FALSE, "">>

\* Mutant: the request is built at QoS 1 whatever the caller asked for
PublishRequestAtLeastOnce(topic, qos, payload) ==
    <<"Publish", topic, AtLeastOnce, FALSE, payload>>

\* Publish::new(topic_name, qos, payload) / client.publish(topic_name, qos, false, payload)
PublishRequest(topic, qos, payload) == <<"Publish", topic, qos, FALSE, payload>>

(* Poll results: Err(_), or Ok((incoming, outgoing)) by its incoming part, *)
(* as <<kind, payload, pkid>>                                             *)
Notification(kind, payload, pkid) == <<kind, payload, pkid>>
Kind(n) == n[1]
Payload(n) == n[2]
PkId(n) == n[3]
ErrResult == Notification("Err", <<>>, 0)
NoIncoming == Notification("None", <<>>, 0)
Connected == Notification("Connected", <<>>, 0)
IncomingPublish(p) == Notification("Publish", p, 0)
IncomingPubAck(id) == Notification("PubAck", <<>>, id)
OtherIncoming == Notification("Other", <<>>, 0)
NoResult == Notification("-", <<>>, 0)

(* Callback invocations, as <<callback, payload, pkid>> *)
Call(cb, payload, pkid) == <<cb, payload, pkid>>
Callback(c) == c[1]

NoRequest == <<"-", "", "-", FALSE, "">>

----------------------------------------------------------------------------
(* Construction *)

\* Mutant: the failure to read the key file is not propagated
ReadCredentialsKeyUnchecked(ca, cert, key) ==
    IF ~ca THEN "FileReadError"
    ELSE IF ~cert THEN "FileReadError"
    ELSE "Ok"

\* read(ca_path)?, read(client_cert_path)?, read(client_key_path)?: the first
\* unreadable file ends the call with its io error
ReadCredentials(ca, cert, key) ==
    IF ~ca THEN "FileReadError"
    ELSE IF ~cert THEN "FileReadError"
    ELSE IF ~key THEN "FileReadError"
    ELSE "Ok"

\* Mutant: the constructor negotiates with the broker and returns its failure
ConstructNegotiating(v, ca, cert, key) ==
    /\ variant = "none"
    /\ variant' = v
    /\ files' = <<ca, cert, key>>
    /\ result' = IF ~(ca /\ cert /\ key) THEN "FileReadError"
                 ELSE IF ~brokerOk THEN "TransportError"
                 ELSE "Ok"
    /\ handles' = IF ca /\ cert /\ key /\ brokerOk THEN 1 ELSE 0
    /\ conns' = IF ca /\ cert /\ key /\ brokerOk THEN 1 ELSE 0
    /\ connAlive' = (ca /\ cert /\ key /\ brokerOk)
    /\ UNCHANGED <<brokerOk, callerVars, channelVars, loopVars>>

\* The body shared by the two constructors: the credential files are read
\* while the options are built; only then is the library object created,
\* with a request channel of capacity RequestCap, and split into handle and
\* receive side.  The library's constructor returns no Result: nothing is
\* negotiated with the broker here.
Construct(v, ca, cert, key) ==
    /\ variant = "none"
    /\ variant' = v
    /\ files' = <<ca, cert, key>>
    /\ result' = ReadCredentials(ca, cert, key)
    /\ handles' = IF ReadCredentials(ca, cert, key) = "Ok" THEN 1 ELSE 0
    /\ conns' = IF ReadCredentials(ca, cert, key) = "Ok" THEN 1 ELSE 0
    /\ connAlive' = (ReadCredentials(ca, cert, key) = "Ok")
    /\ UNCHANGED <<brokerOk, callerVars, channelVars, loopVars>>

AWSIoTClient_new ==
    \E ca, cert, key \in BOOLEAN : Construct("blocking", ca, cert, key)

AWSIoTAsyncClient_new ==
    \E ca, cert, key \in BOOLEAN : Construct("async", ca, cert, key)

Init ==
    /\ brokerOk \in BOOLEAN
    /\ files = <<FALSE, FALSE, FALSE>>
    /\ variant = "none"
    /\ result = "none"
    /\ handles = 0
    /\ conns = 0
    /\ connAlive = FALSE
    /\ chan = <<>>
    /\ issued = <<>>
    /\ delivered = <<>>
    /\ callerPc = "idle"
    /\ pendingReq = NoRequest
    /\ calls = 0
    /\ sendFailed = FALSE
    /\ inflight = 0
    /\ loopPc = "idle"
    /\ cur = NoResult
    /\ exhausted = FALSE
    /\ polled = <<>>
    /\ log = <<>>

----------------------------------------------------------------------------
(* subscribe / publish: the caller's side of the request channel *)

\* A call begins: the request is built and its send on the channel starts.
\* The call is over only when the send has returned (SendReturn).
BeginSend(v, op, topic, qos, payload, req, max) ==
    /\ variant = v
    /\ result = "Ok"
    /\ callerPc = "idle"
    /\ calls < max
    /\ callerPc' = "sending"
    /\ pendingReq' = req
    /\ calls' = calls + 1
    /\ issued' = Append(issued, <<op, topic, qos, payload>>)
    /\ UNCHANGED <<brokerOk, constructionVars, channelVars, sendFailed, loopVars>>

subscribe(Q, max) ==
    \E t \in DOMAIN Topics, q \in DOMAIN Q :
        BeginSend("blocking", "subscribe", Topics[t], Q[q], "",
                  SubscribeRequest(Topics[t], Q[q]), max)

publish(Q, max) ==
    \E t \in DOMAIN Topics, q \in DOMAIN Q, p \in DOMAIN OutPayloads :
        BeginSend("blocking", "publish", Topics[t], Q[q], OutPayloads[p],
                  PublishRequest(Topics[t], Q[q], OutPayloads[p]), max)

async_subscribe(Q, max) ==
    \E t \in DOMAIN Topics, q \in DOMAIN Q :
        BeginSend("async", "subscribe", Topics[t], Q[q], "",
                  SubscribeRequest(Topics[t], Q[q]), max)

async_publish(Q, max) ==
    \E t \in DOMAIN Topics, q \in DOMAIN Q, p \in DOMAIN OutPayloads :
        BeginSend("async", "publish", Topics[t], Q[q], OutPayloads[p],
                  PublishRequest(Topics[t], Q[q], OutPayloads[p]), max)

\* The send returns.  With the receive side gone the channel is closed and
\* the send returns Err, which unwrap() turns into a panic.  Otherwise the
\* send returns once the channel has room, and the call returns normally.
SendReturnsAs(cap, onError) ==
    /\ callerPc = "sending"
    /\ IF ~connAlive
       THEN /\ callerPc' = onError
            /\ sendFailed' = TRUE
            /\ UNCHANGED chan
       ELSE /\ Len(chan) < cap
            /\ chan' = Append(chan, pendingReq)
            /\ callerPc' = "idle"
            /\ UNCHANGED sendFailed
    /\ pendingReq' = NoRequest
    /\ UNCHANGED <<brokerOk, constructionVars, delivered, inflight, calls, issued, loopVars>>

\* Mutant: the channel holds one request more than asked for
SendReturnOffByOne == SendReturnsAs(RequestCap + 1, "panicked")

\* Mutant: the error of the send is dropped instead of unwrapped
SendReturnIgnoresError == SendReturnsAs(RequestCap, "idle")

\* Mutant: try_send instead of send: a full channel is an error
SendReturnTrySend ==
    /\ callerPc = "sending"
    /\ IF ~connAlive \/ Len(chan) >= RequestCap
       THEN /\ callerPc' = "panicked"
            /\ sendFailed' = TRUE
            /\ UNCHANGED chan
       ELSE /\ chan' = Append(chan, pendingReq)
            /\ callerPc' = "idle"
            /\ UNCHANGED sendFailed
    /\ pendingReq' = NoRequest
    /\ UNCHANGED <<brokerOk, constructionVars, delivered, inflight, calls, issued, loopVars>>

SendReturn == SendReturnsAs(RequestCap, "panicked")

----------------------------------------------------------------------------
(* The receive side: owned by the caller until a listener takes it *)

\* The caller drops the Connection / EventLoop it was handed without ever
\* listening on it: the request channel is closed.
DropReceiver ==
    /\ result = "Ok"
    /\ connAlive
    /\ loopPc = "idle"
    /\ connAlive' = FALSE
    /\ loopPc' = "dropped"
    /\ UNCHANGED <<brokerOk, files, variant, result, handles, conns, callerVars,
                   channelVars, cur, exhausted, polled, log>>

\* The task running start_async_event_listener is cancelled from outside
\* while suspended in poll().await; the EventLoop it owns is dropped.
CancelTask ==
    /\ variant = "async"
    /\ loopPc = "polling"
    /\ connAlive' = FALSE
    /\ loopPc' = "cancelled"
    /\ UNCHANGED <<brokerOk, files, variant, result, handles, conns, callerVars,
                   channelVars, cur, exhausted, polled, log>>

StartListener(v) ==
    /\ variant = v
    /\ result = "Ok"
    /\ connAlive
    /\ loopPc = "idle"
    /\ loopPc' = "polling"
    /\ UNCHANGED <<brokerOk, constructionVars, callerVars, channelVars, cur,
                   exhausted, polled, log>>

start_event_listener == StartListener("blocking")

start_async_event_listener == StartListener("async")

----------------------------------------------------------------------------
(* One poll of the event loop: connection.iter().next() / eventloop.poll().await *)

\* The kinds some loop has a callback for
HasCallback(n) == Kind(n) = "Connected" \/ Kind(n) = "Publish" \/ Kind(n) = "PubAck"

\* The poll takes the oldest request from the channel and hands it to the
\* network; the result carries no incoming packet.
PollRequest ==
    /\ loopPc = "polling"
    /\ brokerOk
    /\ chan # <<>>
    /\ chan' = Tail(chan)
    /\ delivered' = Append(delivered, Head(chan))
    /\ inflight' = IF ReqType(Head(chan)) = "Publish" /\ ReqQos(Head(chan)) = AtLeastOnce
                   THEN inflight + 1 ELSE inflight
    /\ cur' = NoIncoming
    /\ loopPc' = "matched"
    /\ UNCHANGED <<brokerOk, constructionVars, callerVars, exhausted, polled, log>>

\* The poll returns a packet from the broker.  The broker acknowledges only
\* QoS 1 publishes, each once.
PollIncoming ==
    /\ loopPc = "polling"
    /\ brokerOk
    /\ \/ cur' = OtherIncoming /\ UNCHANGED inflight
       \/ /\ Len(log) < MaxCallbacks
          /\ \/ cur' = Connected /\ UNCHANGED inflight
             \/ \E i \in DOMAIN InPayloads :
                   cur' = IncomingPublish(InPayloads[i]) /\ UNCHANGED inflight
             \/ \E i \in DOMAIN PubAckIds :
                   /\ inflight > 0
                   /\ inflight' = inflight - 1
                   /\ cur' = IncomingPubAck(PubAckIds[i])
    /\ loopPc' = "matched"
    /\ UNCHANGED <<brokerOk, constructionVars, chan, delivered, callerVars,
                   exhausted, polled, log>>

\* The poll fails: the broker cannot be reached, or the connection broke.
PollErr ==
    /\ loopPc = "polling"
    /\ cur' = ErrResult
    /\ loopPc' = "matched"
    /\ UNCHANGED <<brokerOk, constructionVars, channelVars, callerVars, exhausted,
                   polled, log>>

\* The blocking iterator is exhausted: the for loop ends, the function
\* returns and the Connection it owns is dropped.
IterEnd ==
    /\ variant = "blocking"
    /\ loopPc = "polling"
    /\ loopPc' = "returned"
    /\ exhausted' = TRUE
    /\ connAlive' = FALSE
    /\ UNCHANGED <<brokerOk, files, variant, result, handles, conns, callerVars,
                   channelVars, cur, polled, log>>

----------------------------------------------------------------------------
(* The match on the poll result *)

\* Mutant: the blocking loop has the PubAck arm of the concurrent one
BlockingDispatchWithPubAck(n) ==
    IF Kind(n) = "Publish" THEN <<Call("on_publish", Payload(n), 0)>>
    ELSE IF Kind(n) = "Connected" THEN <<Call("on_connect", <<>>, 0)>>
    ELSE IF Kind(n) = "PubAck" THEN <<Call("on_puback", <<>>, PkId(n))>>
    ELSE <<>>

\* start_event_listener: Publish and Connected have an arm, the rest is `_ => ()`
BlockingDispatch(n) ==
    IF Kind(n) = "Publish" THEN <<Call("on_publish", Payload(n), 0)>>
    ELSE IF Kind(n) = "Connected" THEN <<Call("on_connect", <<>>, 0)>>
    ELSE <<>>

\* Mutant: the concurrent loop lacks the PubAck arm, like the blocking one
AsyncDispatchNoPubAck(n) ==
    IF Kind(n) = "Publish" THEN <<Call("on_publish", Payload(n), 0)>>
    ELSE IF Kind(n) = "Connected" THEN <<Call("on_connect", <<>>, 0)>>
    ELSE <<>>

\* start_async_event_listener: Publish, Connected and PubAck have an arm
AsyncDispatch(n) ==
    IF Kind(n) = "Publish" THEN <<Call("on_publish", Payload(n), 0)>>
    ELSE IF Kind(n) = "Connected" THEN <<Call("on_connect", <<>>, 0)>>
    ELSE IF Kind(n) = "PubAck" THEN <<Call("on_puback", <<>>, PkId(n))>>
    ELSE <<>>

\* The history of matched results: results that invoke no callback are
\* kept only while fewer than MaxIgnored of them are in it.
Ignored(h) == SelectSeq(h, LAMBDA n : ~HasCallback(n))

Record(n) ==
    IF HasCallback(n) \/ Len(Ignored(polled)) < MaxIgnored
    THEN Append(polled, n)
    ELSE polled

\* One pass through the match: the callbacks are invoked and the loop goes
\* on to `next` (the next poll).
MatchStep(v, callbacks, next) ==
    /\ variant = v
    /\ loopPc = "matched"
    /\ log' = log \o callbacks
    /\ polled' = Record(cur)
    /\ cur' = NoResult
    /\ loopPc' = next
    /\ UNCHANGED <<brokerOk, constructionVars, callerVars, channelVars, exhausted>>

\* Mutant: an Err notification ends the for loop
BlockingMatchStopsOnErr ==
    MatchStep("blocking", BlockingDispatch(cur),
              IF Kind(cur) = "Err" THEN "returned" ELSE "polling")

BlockingMatch == MatchStep("blocking", BlockingDispatch(cur), "polling")

\* Mutant: a failed poll ends the loop
AsyncMatchReturnsOnErr ==
    MatchStep("async", AsyncDispatch(cur),
              IF Kind(cur) = "Err" THEN "returned" ELSE "polling")

AsyncMatch == MatchStep("async", AsyncDispatch(cur), "polling")

----------------------------------------------------------------------------
(* Specifications *)

\* The mixed scenario: either variant, any QoS, any poll result
Next ==
    \/ AWSIoTClient_new
    \/ AWSIoTAsyncClient_new
    \/ subscribe(QoS, MaxReq)
    \/ publish(QoS, MaxReq)
    \/ async_subscribe(QoS, MaxReq)
    \/ async_publish(QoS, MaxReq)
    \/ SendReturn
    \/ DropReceiver
    \/ CancelTask
    \/ start_event_listener
    \/ start_async_event_listener
    \/ PollRequest
    \/ PollIncoming
    \/ PollErr
    \/ IterEnd
    \/ BlockingMatch
    \/ AsyncMatch

Spec == Init /\ [][Next]_vars

\* The burst scenario: the concurrent variant, a caller that sends up to
\* MaxBurst requests at QoS 0, a broker that sends nothing
NextBurst ==
    \/ AWSIoTAsyncClient_new
    \/ async_subscribe(OnlyAtMostOnce, MaxBurst)
    \/ async_publish(OnlyAtMostOnce, MaxBurst)
    \/ SendReturn
    \/ start_async_event_listener
    \/ PollRequest
    \/ AsyncMatch

SpecBurst == Init /\ [][NextBurst]_vars

\* The burst scenario with a listener that keeps polling: every poll
\* returns, every result is matched, every send that can return does
NextPolling ==
    \/ AWSIoTAsyncClient_new
    \/ async_subscribe(OnlyAtMostOnce, MaxBurst)
    \/ SendReturn
    \/ start_async_event_listener
    \/ PollRequest
    \/ PollErr
    \/ AsyncMatch

SpecPolling ==
    /\ Init
    /\ [][NextPolling]_vars
    /\ WF_vars(start_async_event_listener)
    /\ WF_vars(PollRequest \/ PollErr)
    /\ WF_vars(AsyncMatch)
    /\ WF_vars(SendReturn)

----------------------------------------------------------------------------
(* Claims *)

RECURSIVE Concat(_, _)
\* Concat(F, h): F applied to each element of h, the results concatenated in order
Concat(F(_), h) ==
    IF h = <<>> THEN <<>>
    ELSE Concat(F, SubSeq(h, 1, Len(h) - 1)) \o F(h[Len(h)])

Invoked(cb) == \E i \in DOMAIN log : Callback(log[i]) = cb
Polled(kind) == \E i \in DOMAIN polled : Kind(polled[i]) = kind
AllReadable == files = <<TRUE, TRUE, TRUE>>
Sending == callerPc = "sending"
Completed == Len(delivered) + Len(chan)

\* What the concurrent loop owes each poll result
ExpectedAsync(n) ==
    CASE Kind(n) = "Connected" -> <<Call("on_connect", <<>>, 0)>>
      [] Kind(n) = "Publish" -> <<Call("on_publish", Payload(n), 0)>>
      [] Kind(n) = "PubAck" -> <<Call("on_puback", <<>>, PkId(n))>>
      [] OTHER -> <<>>

\* What the blocking loop owes each notification
ExpectedBlocking(n) ==
    CASE Kind(n) = "Connected" -> <<Call("on_connect", <<>>, 0)>>
      [] Kind(n) = "Publish" -> <<Call("on_publish", Payload(n), 0)>>
      [] OTHER -> <<>>

Expected(v, n) == IF v = "async" THEN ExpectedAsync(n) ELSE ExpectedBlocking(n)

ExampleStream == <<Connected, IncomingPublish(<<1, 2, 3>>), IncomingPubAck(7)>>
ExampleLog ==
    <<Call("on_connect", <<>>, 0), Call("on_publish", <<1, 2, 3>>, 0),
      Call("on_puback", <<>>, 7)>>
IncomingPackets(h) == SelectSeq(h, LAMBDA n : Kind(n) # "None" /\ Kind(n) # "Err")

\* C1: in the concurrent dispatch loop the sequence of callback invocations
\* is the order-preserving image of the stream of poll results: one
\* on_connect per Connected, one on_publish(m) per Publish(m), one
\* on_puback(a) per PubAck(a), in stream order, nothing else; the stream
\* Connected, Publish([1,2,3]), PubAck(7) gives on_connect,
\* on_publish([1,2,3]), on_puback(7).
C1_AsyncCallbacksAreImageOfStream ==
    variant = "async" =>
        /\ log = Concat(ExpectedAsync, polled)
        /\ IncomingPackets(polled) = ExampleStream => log = ExampleLog

C1_Witness ==
    /\ variant = "async"
    /\ IncomingPackets(polled) = ExampleStream
    /\ log = ExampleLog

\* C2: construction is atomic: a call ends with one handle and one receive
\* side, or with an error and neither; an unreadable CA, certificate or key
\* file gives the file-read error and no client or event loop.
C2_ConstructionAtomic ==
    /\ result = "none" \/ result = "Ok" \/ result = "FileReadError"
    /\ result = "Ok" => handles = 1 /\ conns = 1
    /\ result # "Ok" => handles = 0 /\ conns = 0 /\ ~connAlive
    /\ (variant # "none" /\ ~AllReadable) => result = "FileReadError"

C2_Witness ==
    /\ variant # "none"
    /\ files = <<TRUE, TRUE, FALSE>>
    /\ result = "FileReadError"
    /\ handles = 0

\* C3 as stated: a failed negotiation with the broker is returned by the
\* constructor: it never returns Ok when the negotiation fails, and the
\* failure is never first seen in the event loop.
C3_NegotiationFailureReturnedByConnect ==
    (variant # "none" /\ ~brokerOk) => (result # "Ok" /\ cur # ErrResult)

\* C3 as amended: the constructor returns an error exactly when a credential
\* file is unreadable, and that error is the file-read error; it negotiates
\* nothing, so with readable files it returns Ok also when the broker cannot
\* be reached, and the failed negotiation shows up only as Err poll results,
\* for which the loop invokes no callback.
C3_OnlyFileErrorsFromConnect ==
    variant # "none" =>
        /\ result = "Ok" <=> AllReadable
        /\ result # "Ok" => result = "FileReadError"
        /\ (result = "Ok" /\ ~brokerOk) =>
              /\ \A i \in DOMAIN polled : polled[i] = ErrResult
              /\ log = <<>>
              /\ delivered = <<>>

C3_Witness ==
    /\ ~brokerOk
    /\ result = "Ok"
    /\ Polled("Err")

OnlyAtMostOncePublishes ==
    \A i \in DOMAIN issued : issued[i][1] = "publish" => issued[i][3] = AtMostOnce

\* C4: while every publish issued through the client uses AtMostOnce, the
\* dispatch loop never invokes on_puback.
C4_NoPubAckForAtMostOnce ==
    OnlyAtMostOncePublishes => ~Invoked("on_puback")

C4_Witness ==
    /\ variant = "async"
    /\ \E i \in DOMAIN issued : issued[i][1] = "publish" /\ issued[i][3] = AtMostOnce
    /\ \E i \in DOMAIN delivered : ReqType(delivered[i]) = "Publish"
    /\ Len(log) >= 2
    /\ ~Invoked("on_puback")

Unrecognised(v, n) == Expected(v, n) = <<>>

\* C5: in both loops a result that is an error, has no incoming packet, or
\* is of a kind the loop has no arm for invokes no callback and leaves the
\* loop listening: the loop goes back to polling, and a recognised result
\* that comes after it is dispatched as usual.
C5_IgnoredResultsDoNotStopTheLoop ==
    [][loopPc = "matched" =>
          /\ Unrecognised(variant, cur) =>
                log' = log /\ (loopPc' = "matched" \/ loopPc' = "polling")
          /\ (loopPc' # "matched" /\ (Polled("Err") \/ Polled("None") \/ Polled("Other"))) =>
                log' = log \o Expected(variant, cur) /\ loopPc' = "polling"]_vars

C5_Witness ==
    /\ variant = "async"
    /\ Len(polled) >= 2
    /\ polled[1] = ErrResult
    /\ Kind(polled[2]) = "Publish"
    /\ log = <<Call("on_publish", Payload(polled[2]), 0)>>
    /\ loopPc = "polling"

\* What the channel has been asked to carry: the request of each call whose
\* send has returned, in call order
RequestOf(c) ==
    IF c[1] = "subscribe" THEN SubscribeRequest(c[2], c[3])
    ELSE PublishRequest(c[2], c[3], c[4])

Accepted == IF Sending THEN Len(issued) - 1 ELSE Len(issued)

\* C6: the channel of the concurrent variant delivers the requests in the
\* order of the calls, none lost or duplicated, holds at most 10 of them,
\* and a call made while 10 are pending does not return before the event
\* loop has taken one.
C6_ChannelFifoAndBounded ==
    /\ [](variant = "async" /\ connAlive =>
            /\ Len(delivered) + Len(chan) = Accepted
            /\ \A i \in 1..Accepted : (delivered \o chan)[i] = RequestOf(issued[i])
            /\ Len(chan) <= RequestCap)
    /\ [][(variant = "async" /\ Sending /\ Len(chan) = RequestCap) => Sending']_vars

C6_Witness ==
    /\ variant = "async"
    /\ Sending
    /\ Len(chan) = RequestCap
    /\ Len(delivered) = 1
    /\ ReqType(delivered[1]) = "Publish"
    /\ ReqType(chan[1]) = "Subscribe"

\* C7: in either variant a subscribe or publish whose send failed does not
\* return: the caller panics.
C7_SendFailurePanics ==
    sendFailed => callerPc = "panicked"

C7_Witness ==
    /\ sendFailed
    /\ callerPc = "panicked"
    /\ ~connAlive
    /\ loopPc = "returned"
    /\ Len(log) >= 1

\* C8: the blocking loop returns only when the iterator is exhausted, every
\* notification before that having been matched; the concurrent loop never
\* returns, whatever poll returns.
C8_LoopExits ==
    /\ loopPc = "returned" =>
          /\ variant = "blocking"
          /\ exhausted
          /\ cur = NoResult
          /\ log = Concat(ExpectedBlocking, polled)
    /\ exhausted => loopPc = "returned"
    /\ variant = "async" => loopPc # "returned"

C8_Witness ==
    /\ loopPc = "returned"
    /\ Polled("Err")
    /\ Len(log) >= 1

\* C9: the blocking loop invokes on_publish for Publish and on_connect for
\* Connected, one callback each, in stream order, and never on_puback: a
\* PubAck it receives is ignored.
C9_BlockingDispatch ==
    variant = "blocking" =>
        /\ log = Concat(ExpectedBlocking, polled)
        /\ ~Invoked("on_puback")

C9_Witness ==
    /\ variant = "blocking"
    /\ Polled("PubAck")
    /\ Invoked("on_connect")
    /\ Invoked("on_publish")

\* C10 as stated: while the event loop is not polled at most 10 calls
\* return and the 11th stays suspended; and under a listener that keeps
\* polling every call returns.
C10_PollingCompletesEveryCall ==
    /\ [](delivered = <<>> => Completed <= RequestCap)
    /\ Sending ~> ~Sending

\* C10 as amended: while the event loop has taken nothing, the first 10
\* calls can return and no more than 10 do; a call suspended on the full
\* channel stays suspended, without error, until a poll takes a request;
\* and every call returns if polls keep taking pending requests.  Polling
\* alone is not enough: a poll that fails takes no request.
C10_DrainingCompletesEveryCall ==
    /\ [](delivered = <<>> => Completed <= RequestCap)
    /\ []((Sending /\ Completed < RequestCap) => ENABLED SendReturn)
    /\ [][(Sending /\ Len(chan) = RequestCap /\ delivered' = delivered) => Sending']_vars
    /\ SF_vars(PollRequest) => ((brokerOk /\ Sending) ~> ~Sending)

C10_Witness ==
    /\ calls = RequestCap + 1
    /\ Sending
    /\ Len(chan) = RequestCap
    /\ delivered = <<>>
    /\ loopPc = "matched"

====
